---------------------------- MODULE Spec2Model ----------------------------
(***************************************************************************)
(* Multi-architecture consistency report of the audit tool                 *)
(* (pkg/reports/custom/multiarch_report.go).                               *)
(*                                                                         *)
(* NewMultiArchReport walks the head-of-channel bundles of an index,       *)
(* builds one MultiArchBundle per bundle (labels, annotation, manifest     *)
(* platforms of the install and related images, the Supported set),        *)
(* validates it and attaches it to its package.                            *)
(*                                                                         *)
(* Strings are TLA+ strings; strings.Contains, strings.ReplaceAll,         *)
(* strings.Split and fmt.Sprintf are computed on them.  Go's map range     *)
(* order is unspecified: every range over a map is modelled as a choice    *)
(* among all orders of its keys.                                           *)
(***************************************************************************)
EXTENDS Integers, Sequences, FiniteSets, TLC

VARIABLES
  inspector,                \* the Manifest Inspector behind pkg.RunDockerManifestInspect
  bundlesReport,            \* bundles.Report: Columns, Flags.ContainerEngine
  filter,                   \* the name filter argument
  mapPerPkgHeadsOnly,       \* package -> head bundles still to be ranged over
  curPkg,                   \* package whose bundle list is being ranged over
  pc,                       \* position inside NewMultiArchReport
  mb,                       \* the MultiArchBundle being built
  idx,                      \* position in the image list being inspected
  calls,                    \* Manifest Inspector calls made for the current image occurrence
  inspected,                \* per processed bundle: the final inspection outcome of each occurrence
  mapPackagesWithMultData,  \* package -> bundles attached so far
  multiArch                 \* MultiArchReport.Packages

vars == <<inspector, bundlesReport, filter, mapPerPkgHeadsOnly, curPkg, pc, mb, idx, calls,
          inspected, mapPackagesWithMultData, multiArch>>

---------------------------------------------------------------------------
(* Bounds of the model *)

MaxLabels == 2     \* labels on a CSV
MaxImages == 2     \* image occurrences (install containers + related images) of a bundle
MaxImagesTwice == 1  \* the same, for the bundle that is audited twice

---------------------------------------------------------------------------
(* strings *)

\* strings.Index: position of the first occurrence of sub in s, 0 when absent
Index(s, sub) ==
  LET hits == {i \in 1..(Len(s) + 1) :
                 /\ i + Len(sub) - 1 <= Len(s)
                 /\ SubSeq(s, i, i + Len(sub) - 1) = sub}
  IN IF hits = {} THEN 0 ELSE CHOOSE i \in hits : \A j \in hits : i <= j

\* strings.Contains
Contains(s, sub) ==
  \E i \in 1..(Len(s) + 1 - Len(sub)) : SubSeq(s, i, i + Len(sub) - 1) = sub

\* strings.ReplaceAll: every non-overlapping occurrence of old, left to right
RECURSIVE ReplaceAll(_, _, _)
ReplaceAll(s, old, new) ==
  LET i == Index(s, old)
  IN IF i = 0 THEN s
     ELSE SubSeq(s, 1, i - 1) \o new
            \o ReplaceAll(SubSeq(s, i + Len(old), Len(s)), old, new)

\* strings.Split(s, ".")[1] for an s that contains ".": the text between the
\* first "." and the second "." (or the end of s)
SplitDotSecond(s) ==
  LET rest == SubSeq(s, Index(s, ".") + 1, Len(s))
      j    == Index(rest, ".")
  IN IF j = 0 THEN rest ELSE SubSeq(rest, 1, j - 1)

\* fmt.Sprintf("%s.%s", SO, Architecture)
SprintfPlatform(p) == p.SO \o "." \o p.Architecture

---------------------------------------------------------------------------
(* sequences and Go maps *)

Range(s) == {s[i] : i \in 1..Len(s)}

RECURSIVE Perms(_)
\* all orders in which a range over a map with key set S can visit it
Perms(S) ==
  IF S = {} THEN {<<>>}
  ELSE UNION {{<<x>> \o p : p \in Perms(S \ {x})} : x \in S}

\* m[k] of a Go map: the zero value when the key is absent
Lookup(m, k) == IF k \in DOMAIN m THEN m[k] ELSE ""

\* m[k] = append(m[k], items...) on a map[string][]string; a key is created
\* only when something is appended
AppendAll(m, k, items) ==
  IF items = <<>> THEN m
  ELSE [x \in DOMAIN m \cup {k} |->
          IF x = k THEN (IF k \in DOMAIN m THEN m[k] ELSE <<>>) \o items
          ELSE m[x]]

EmptyMap == [x \in {} |-> <<>>]

---------------------------------------------------------------------------
(* inputs *)

ArchPrefix == "operatorframework.io/arch."
InfrastructureAnnotation == "operators.openshift.io/infrastructure-features"

LabelEntries ==
  { <<"operatorframework.io/arch.amd64",   "supported">>,
    <<"operatorframework.io/arch.s390x",   "supported">>,
    <<"operatorframework.io/arch.ppc64le", "unsupported">>,
    <<"operatorframework.io/os.linux",     "supported">> }

\* ObjectMeta.Labels: at most MaxLabels of the entries
LabelMaps ==
  { [k \in {e[1] : e \in E} |-> (CHOOSE e \in E : e[1] = k)[2]] :
      E \in {E \in SUBSET LabelEntries : Cardinality(E) <= MaxLabels} }

\* ObjectMeta.Annotations: the infrastructure annotation absent, or present
AnnotationMaps ==
  { [k \in {} |-> ""] } \cup
  { [k \in {InfrastructureAnnotation} |-> v] :
      v \in {"disconnected", "Disconnected", "DISCONNECTED"} }

ImageRefs == {"registry/x@sha256:abc", "registry/x:latest"}

RECURSIVE SeqsUpTo(_, _)
SeqsUpTo(S, n) ==
  IF n = 0 THEN {<<>>}
  ELSE SeqsUpTo(S, n - 1) \cup
       {Append(s, x) : s \in {t \in SeqsUpTo(S, n - 1) : Len(t) = n - 1}, x \in S}

Platforms ==
  [ amd64 |-> [SO |-> "linux", Architecture |-> "amd64"],
    s390x |-> [SO |-> "linux", Architecture |-> "s390x"],
    armv7 |-> [SO |-> "linux", Architecture |-> "arm.v7"] ]

\* what the registry may hold for each image reference: a digest names one
\* manifest list, a tag may point to an image with no manifest list or to a
\* single-platform one
Registry ==
  [ image \in ImageRefs |->
      IF image = "registry/x@sha256:abc"
      THEN { <<Platforms.s390x, Platforms.armv7>> }
      ELSE { <<>>, <<Platforms.amd64>> } ]

ErrText == "manifest inspect failed"

\* the results one call of the tool can give for an image
InspectResults(image) ==
  { [err |-> TRUE, ManifestData |-> <<>>] } \cup
  { [err |-> FALSE, ManifestData |-> l] : l \in Registry[image] }

\* the real tool: external, any call may fail or succeed
Unreliable == [mode |-> "unreliable", results |-> [image \in {} |-> {}]]

\* test doubles: the same result for the same image on every call
Stubs ==
  { [mode |-> "stub", results |-> r] :
      r \in { f \in [ImageRefs -> UNION {InspectResults(i) : i \in ImageRefs}] :
                \A i \in ImageRefs : f[i] \in InspectResults(i) } }

\* pkg.RunDockerManifestInspect(image, engine): the manifest list of the image,
\* or an error
RunDockerManifestInspect(image, engine) ==
  IF inspector.mode = "stub" THEN {inspector.results[image]} ELSE InspectResults(image)

\* bundles.Column, the fields the report reads
BundleRecords(maxImages) ==
  { [ PackageName     |-> "etcd",
      Name            |-> "etcd.v1",
      IsHeadOfChannel |-> h,
      Labels          |-> l,
      Annotations     |-> a,
      InstallImages   |-> ii,
      RelatedImages   |-> ri,
      AuditErrors     |-> <<>> ] :
      h \in BOOLEAN, l \in LabelMaps, a \in AnnotationMaps,
      ii \in SeqsUpTo(ImageRefs, maxImages),
      ri \in SeqsUpTo(ImageRefs, maxImages) }

Filters == {"", "etc", "zoo"}

Engines == {"docker"}

---------------------------------------------------------------------------
(* findings *)

\* a validation finding: the check that produced it and what its text names
Finding(check, bundle, role, image, tokens) ==
  [check |-> check, bundle |-> bundle, role |-> role, image |-> image, tokens |-> tokens]

---------------------------------------------------------------------------
(* the Architecture Extractor *)

\* MultiArchBundle{BundleData: bundle}
NewMultiArchBundle(bundle) ==
  [ BundleData              |-> bundle,
    HasDisconnectAnnotation |-> FALSE,
    InfraLabels             |-> <<>>,
    RelateImages            |-> EmptyMap,
    InstallImages           |-> EmptyMap,
    Validations             |-> <<>>,
    Supported               |-> {},
    HasMultArchSupport      |-> FALSE ]

\* the value of mb before the first bundle is taken
NoBundle == NewMultiArchBundle(
  [ PackageName |-> "", Name |-> "", IsHeadOfChannel |-> FALSE, Labels |-> [k \in {} |-> ""],
    Annotations |-> [k \in {} |-> ""], InstallImages |-> <<>>, RelatedImages |-> <<>>,
    AuditErrors |-> <<>> ])

\* the label keys addInfraLabels keeps
IsInfraLabel(k, v) == Contains(k, "arch") /\ v = "supported"

\* addInfraLabels: the results of ranging over the Labels map in any order
addInfraLabels(m) ==
  LET labels == m.BundleData.Labels
      keep   == {k \in DOMAIN labels : IsInfraLabel(k, labels[k])}
  IN { [m EXCEPT !.InfraLabels = @ \o order] : order \in Perms(keep) }

\* the test addDisconnectAnnotationValue makes on the annotation's value
IsDisconnected(infra) == Contains(infra, "Disconnected") \/ Contains(infra, "disconnected")

addDisconnectAnnotationValue(m) ==
  LET infra == Lookup(m.BundleData.Annotations, InfrastructureAnnotation)
  IN IF IsDisconnected(infra) THEN [m EXCEPT !.HasDisconnectAnnotation = TRUE] ELSE m

\* the platform strings appended for one manifest list
PlatformStrings(manifestData) ==
  [i \in 1..Len(manifestData) |-> SprintfPlatform(manifestData[i])]

\* addDataFromInstallImages, one container: the inspection succeeded
InstallInspected(m, image, manifestData) ==
  [m EXCEPT !.InstallImages = AppendAll(@, image, PlatformStrings(manifestData))]

\* variant: an install failure surfaced as a finding, as a related one is
InstallFailedSurfaced(m, image, errText) ==
  [m EXCEPT !.BundleData.AuditErrors = Append(@, errText),
            !.Validations = Append(@, Finding("inspect", m.BundleData.Name, "install",
                                              image, <<errText>>))]

\* addDataFromInstallImages, one container: the retry failed too
InstallFailed(m, image, errText) ==
  [m EXCEPT !.BundleData.AuditErrors = Append(@, errText)]

\* addDataFromRelateImages, one related image: the inspection succeeded
RelatedInspected(m, image, manifestData) ==
  [m EXCEPT !.RelateImages = AppendAll(@, image, PlatformStrings(manifestData))]

\* addDataFromRelateImages, one related image: the retry failed too
RelatedFailed(m, image, errText) ==
  [m EXCEPT !.BundleData.AuditErrors = Append(@, errText),
            !.Validations = Append(@, Finding("inspect", m.BundleData.Name, "related",
                                              image, <<errText>>))]

\* the token checkSupport takes from one platform string
PlatformToken(soplataform) ==
  IF Contains(soplataform, ".") THEN SplitDotSecond(soplataform) ELSE soplataform

\* the tokens checkSupport takes from one image map
PlatformTokens(images) ==
  UNION { { PlatformToken(soplataform) :
              soplataform \in {t \in Range(images[k]) : Len(t) > 0} } :
          k \in DOMAIN images }

\* the token checkSupport takes from one infrastructure label
LabelToken(v) == ReplaceAll(v, ArchPrefix, "")

checkSupport(m) ==
  [m EXCEPT !.Supported = @ \cup {LabelToken(v) : v \in Range(m.InfraLabels)}
                            \cup PlatformTokens(m.RelateImages)
                            \cup PlatformTokens(m.InstallImages)]

\* variant: the flag set for one token already (>= 1 in place of > 1)
SetHasMultArchSupportFromOne(m) ==
  IF Cardinality(m.Supported) >= 1 THEN [m EXCEPT !.HasMultArchSupport = TRUE] ELSE m

\* NewMultiArchReport: if len(mb.Supported) > 1 { mb.HasMultArchSupport = true }
SetHasMultArchSupport(m) ==
  IF Cardinality(m.Supported) > 1 THEN [m EXCEPT !.HasMultArchSupport = TRUE] ELSE m

---------------------------------------------------------------------------
(* the Consistency Validator *)

\* checkSHA: is the image reference set using a digest
Pinned(image) == Contains(image, "@sha256")

\* the findings of one loop of checkSHA over the keys of a map, visited in `order`
SHAFindings(m, role, order) ==
  LET unpinned == SelectSeq(order, LAMBDA image : ~Pinned(image))
  IN [i \in 1..Len(unpinned) |-> Finding("sha", m.BundleData.Name, role, unpinned[i], <<>>)]

checkSHA(m) ==
  IF m.HasMultArchSupport
  THEN { [m EXCEPT !.Validations = @ \o SHAFindings(m, "related", ro)
                                     \o SHAFindings(m, "install", io)] :
           ro \in Perms(DOMAIN m.RelateImages), io \in Perms(DOMAIN m.InstallImages) }
  ELSE {m}

\* checkLabels: is the token found in some infrastructure label
LabelFound(m, supported) ==
  \E i \in 1..Len(m.InfraLabels) : Contains(m.InfraLabels[i], supported)

\* variant: one finding per unmatched token in place of one for the list
checkLabelsPerToken(m) ==
  IF m.HasMultArchSupport
  THEN LET missing == {su \in m.Supported : ~LabelFound(m, su)}
       IN { [m EXCEPT !.Validations = @ \o
               [i \in 1..Len(notFoundLabel) |->
                  Finding("label", m.BundleData.Name, "", "", <<notFoundLabel[i]>>)]] :
              notFoundLabel \in Perms(missing) }
  ELSE {m}

checkLabels(m) ==
  IF m.HasMultArchSupport
  THEN LET missing == {su \in m.Supported : ~LabelFound(m, su)}
       IN { IF Len(notFoundLabel) > 0
            THEN [m EXCEPT !.Validations =
                    Append(@, Finding("label", m.BundleData.Name, "", "", notFoundLabel))]
            ELSE m :
              notFoundLabel \in Perms(missing) }
  ELSE {m}

checkAnnotation(m) ==
  IF m.HasMultArchSupport /\ ~m.HasDisconnectAnnotation
  THEN [m EXCEPT !.Validations =
          Append(@, Finding("annotation", m.BundleData.Name, "", "", <<>>))]
  ELSE m

\* variant: the platform string compared for equality in place of strings.Contains
ArchFoundExact(arc, su) == \E i \in 1..Len(arc) : arc[i] = su

\* checkMissingArchtype: is the token found in some platform string of the image
ArchFound(arc, su) == \E i \in 1..Len(arc) : Contains(arc[i], su)

\* the findings for one image: Supported is ranged over in any order
MissingForImage(m, role, image, arc) ==
  { [i \in 1..Len(order) |-> Finding("missing", m.BundleData.Name, role, image, <<order[i]>>)] :
      order \in Perms({su \in m.Supported : ~ArchFound(arc, su)}) }

RECURSIVE MissingForImages(_, _, _, _)
\* the findings of one loop of checkMissingArchtype over a map visited in `order`
MissingForImages(m, role, images, order) ==
  IF order = <<>> THEN {<<>>}
  ELSE { h \o t : h \in MissingForImage(m, role, Head(order), images[Head(order)]),
                  t \in MissingForImages(m, role, images, Tail(order)) }

checkMissingArchtype(m) ==
  IF m.HasMultArchSupport
  THEN { [m EXCEPT !.Validations = @ \o rf \o inf] :
           rf \in UNION { MissingForImages(m, "related", m.RelateImages, o) :
                            o \in Perms(DOMAIN m.RelateImages) },
           inf \in UNION { MissingForImages(m, "install", m.InstallImages, o) :
                            o \in Perms(DOMAIN m.InstallImages) } }
  ELSE {m}

\* validate: checkSHA, checkLabels, checkAnnotation, checkMissingArchtype
validate(m) ==
  UNION { UNION { checkMissingArchtype(checkAnnotation(b)) : b \in checkLabels(a) } :
            a \in checkSHA(m) }

---------------------------------------------------------------------------
(* the Package Aggregator: NewMultiArchReport *)

RECURSIVE mapHeadBundlesPerPackageWith(_)
\* package name -> its head-of-channel bundles, in the order of the columns
mapHeadBundlesPerPackageWith(columns) ==
  IF columns = <<>> THEN EmptyMap
  ELSE LET v    == columns[Len(columns)]
           rest == mapHeadBundlesPerPackageWith(SubSeq(columns, 1, Len(columns) - 1))
       IN IF v.IsHeadOfChannel
          THEN [k \in DOMAIN rest \cup {v.PackageName} |->
                  IF k = v.PackageName
                  THEN (IF k \in DOMAIN rest THEN rest[k] ELSE <<>>) \o <<v>>
                  ELSE rest[k]]
          ELSE rest

\* the filter by the name: is the bundle skipped
FilteredOut(bundle, f) == Len(f) > 0 /\ ~Contains(bundle.PackageName, f)

\* the packages whose bundles are still to be visited
Pending == {p \in DOMAIN mapPerPkgHeadsOnly : mapPerPkgHeadsOnly[p] # <<>>}

\* the argument list of one Manifest Inspector call and its outcome
Call(image, engine, res) == [image |-> image, engine |-> engine, err |-> res.err]

\* the final outcome of the inspection of one image occurrence
Outcome(role, image, res) ==
  [role |-> role, image |-> image, err |-> res.err, ManifestData |-> res.ManifestData]

LogOutcome(log, o) == [log EXCEPT ![Len(log)] = Append(@, o)]

\* where the extraction goes on after `done` install images (and, for
\* role "related", `done` related images) have been dealt with: the next
\* container image, else the next related image, else checkSupport
AfterImage(role, done, bundle) ==
  IF role = "install" /\ done < Len(bundle.InstallImages)
    THEN [pc |-> "install", idx |-> done + 1]
  ELSE IF role = "install" /\ Len(bundle.RelatedImages) > 0
    THEN [pc |-> "related", idx |-> 1]
  ELSE IF role = "related" /\ done < Len(bundle.RelatedImages)
    THEN [pc |-> "related", idx |-> done + 1]
  ELSE [pc |-> "checkSupport", idx |-> 1]

InitWith(inspectors, columnSets, filters) ==
  /\ inspector \in inspectors
  /\ bundlesReport \in [Columns : columnSets, ContainerEngine : Engines]
  /\ filter \in filters
  /\ mapPerPkgHeadsOnly = mapHeadBundlesPerPackageWith(bundlesReport.Columns)
  /\ curPkg = ""
  /\ pc = "loop"
  /\ mb = NoBundle
  /\ idx = 1
  /\ calls = <<>>
  /\ inspected = <<>>
  /\ mapPackagesWithMultData = EmptyMap
  /\ multiArch = [Packages |-> <<>>]

\* an index with one bundle, of at most MaxImages image occurrences
Init ==
  InitWith({Unreliable},
           { <<r>> : r \in { b \in BundleRecords(MaxImages) :
                               Len(b.InstallImages) + Len(b.RelatedImages) <= MaxImages } },
           Filters)

\* an index that holds the same bundle twice, audited with a test double of
\* the Manifest Inspector
InitTwice ==
  InitWith(Stubs,
           { <<r, r>> : r \in { b \in BundleRecords(MaxImagesTwice) :
                                  Len(b.InstallImages) + Len(b.RelatedImages) <= MaxImagesTwice } },
           Filters)

\* the loop header and the filter: take the next head bundle
NextBundle ==
  /\ pc = "loop"
  /\ Pending # {}
  /\ \E p \in Pending :
       /\ (curPkg \in Pending) => p = curPkg
       /\ LET bundle == Head(mapPerPkgHeadsOnly[p])
          IN /\ mapPerPkgHeadsOnly' = [mapPerPkgHeadsOnly EXCEPT ![p] = Tail(@)]
             /\ curPkg' = p
             /\ IF FilteredOut(bundle, filter)
                THEN UNCHANGED <<pc, mb, inspected>>
                ELSE /\ mb' = NewMultiArchBundle(bundle)
                     /\ inspected' = Append(inspected, <<>>)
                     /\ pc' = "addInfraLabels"
  /\ UNCHANGED <<inspector, bundlesReport, filter, idx, calls, mapPackagesWithMultData, multiArch>>

AddInfraLabels ==
  /\ pc = "addInfraLabels"
  /\ mb' \in addInfraLabels(mb)
  /\ pc' = "addDisconnectAnnotationValue"
  /\ UNCHANGED <<inspector, bundlesReport, filter, mapPerPkgHeadsOnly, curPkg, idx, calls, inspected,
                 mapPackagesWithMultData, multiArch>>

AddDisconnectAnnotationValue ==
  /\ pc = "addDisconnectAnnotationValue"
  /\ mb' = addDisconnectAnnotationValue(mb)
  /\ pc' = AfterImage("install", 0, mb.BundleData).pc
  /\ idx' = AfterImage("install", 0, mb.BundleData).idx
  /\ UNCHANGED <<inspector, bundlesReport, filter, mapPerPkgHeadsOnly, curPkg, calls, inspected,
                 mapPackagesWithMultData, multiArch>>

\* addDataFromInstallImages: the first inspection of the next container image
InstallInspect ==
  /\ pc = "install"
  /\ LET image == mb.BundleData.InstallImages[idx]
     IN \E res \in RunDockerManifestInspect(image, bundlesReport.ContainerEngine) :
          /\ calls' = <<Call(image, bundlesReport.ContainerEngine, res)>>
          /\ IF res.err
             THEN /\ pc' = "installRetry"
                  /\ UNCHANGED <<mb, idx, inspected>>
             ELSE /\ mb' = InstallInspected(mb, image, res.ManifestData)
                  /\ inspected' = LogOutcome(inspected, Outcome("install", image, res))
                  /\ pc' = AfterImage("install", idx, mb.BundleData).pc
                  /\ idx' = AfterImage("install", idx, mb.BundleData).idx
  /\ UNCHANGED <<inspector, bundlesReport, filter, mapPerPkgHeadsOnly, curPkg,
                 mapPackagesWithMultData, multiArch>>

\* variant: the inspection tried again until it succeeds (up to a third call)
InstallRetryUntilSuccess ==
  /\ pc = "installRetry"
  /\ Len(calls) < 3
  /\ LET image == mb.BundleData.InstallImages[idx]
     IN \E res \in RunDockerManifestInspect(image, bundlesReport.ContainerEngine) :
          /\ calls' = Append(calls, Call(image, bundlesReport.ContainerEngine, res))
          /\ IF res.err
             THEN UNCHANGED <<mb, inspected, pc, idx>>
             ELSE /\ mb' = InstallInspected(mb, image, res.ManifestData)
                  /\ inspected' = LogOutcome(inspected, Outcome("install", image, res))
                  /\ pc' = AfterImage("install", idx, mb.BundleData).pc
                  /\ idx' = AfterImage("install", idx, mb.BundleData).idx
  /\ UNCHANGED <<inspector, bundlesReport, filter, mapPerPkgHeadsOnly, curPkg,
                 mapPackagesWithMultData, multiArch>>

\* addDataFromInstallImages: "Try again", then record the result or the error
InstallRetry ==
  /\ pc = "installRetry"
  /\ LET image == mb.BundleData.InstallImages[idx]
     IN \E res \in RunDockerManifestInspect(image, bundlesReport.ContainerEngine) :
          /\ calls' = Append(calls, Call(image, bundlesReport.ContainerEngine, res))
          /\ mb' = IF res.err THEN InstallFailed(mb, image, ErrText)
                   ELSE InstallInspected(mb, image, res.ManifestData)
          /\ inspected' = LogOutcome(inspected, Outcome("install", image, res))
  /\ pc' = AfterImage("install", idx, mb.BundleData).pc
  /\ idx' = AfterImage("install", idx, mb.BundleData).idx
  /\ UNCHANGED <<inspector, bundlesReport, filter, mapPerPkgHeadsOnly, curPkg,
                 mapPackagesWithMultData, multiArch>>

\* addDataFromRelateImages: the first inspection of the next related image
RelatedInspect ==
  /\ pc = "related"
  /\ LET image == mb.BundleData.RelatedImages[idx]
     IN \E res \in RunDockerManifestInspect(image, bundlesReport.ContainerEngine) :
          /\ calls' = <<Call(image, bundlesReport.ContainerEngine, res)>>
          /\ IF res.err
             THEN /\ pc' = "relatedRetry"
                  /\ UNCHANGED <<mb, idx, inspected>>
             ELSE /\ mb' = RelatedInspected(mb, image, res.ManifestData)
                  /\ inspected' = LogOutcome(inspected, Outcome("related", image, res))
                  /\ pc' = AfterImage("related", idx, mb.BundleData).pc
                  /\ idx' = AfterImage("related", idx, mb.BundleData).idx
  /\ UNCHANGED <<inspector, bundlesReport, filter, mapPerPkgHeadsOnly, curPkg,
                 mapPackagesWithMultData, multiArch>>

\* addDataFromRelateImages: "Try again", then record the result or the error
RelatedRetry ==
  /\ pc = "relatedRetry"
  /\ LET image == mb.BundleData.RelatedImages[idx]
     IN \E res \in RunDockerManifestInspect(image, bundlesReport.ContainerEngine) :
          /\ calls' = Append(calls, Call(image, bundlesReport.ContainerEngine, res))
          /\ mb' = IF res.err THEN RelatedFailed(mb, image, ErrText)
                   ELSE RelatedInspected(mb, image, res.ManifestData)
          /\ inspected' = LogOutcome(inspected, Outcome("related", image, res))
  /\ pc' = AfterImage("related", idx, mb.BundleData).pc
  /\ idx' = AfterImage("related", idx, mb.BundleData).idx
  /\ UNCHANGED <<inspector, bundlesReport, filter, mapPerPkgHeadsOnly, curPkg,
                 mapPackagesWithMultData, multiArch>>

\* mb.checkSupport() and the setting of HasMultArchSupport
CheckSupport ==
  /\ pc = "checkSupport"
  /\ mb' = SetHasMultArchSupport(checkSupport(mb))
  /\ pc' = "validate"
  /\ calls' = <<>>
  /\ UNCHANGED <<inspector, bundlesReport, filter, mapPerPkgHeadsOnly, curPkg, idx, inspected,
                 mapPackagesWithMultData, multiArch>>

\* mb.validate() and the attachment of the bundle to its package
Validate ==
  /\ pc = "validate"
  /\ mb' \in validate(mb)
  /\ mapPackagesWithMultData' = AppendAll(mapPackagesWithMultData, curPkg, <<mb'>>)
  /\ pc' = "loop"
  /\ UNCHANGED <<inspector, bundlesReport, filter, mapPerPkgHeadsOnly, curPkg, idx, calls, inspected,
                 multiArch>>

\* the packages of the report, ranged over in any order
BuildReport ==
  /\ pc = "loop"
  /\ Pending = {}
  /\ \E order \in Perms(DOMAIN mapPackagesWithMultData) :
       multiArch' = [Packages |->
                       [i \in 1..Len(order) |->
                          [Name |-> order[i], Bundles |-> mapPackagesWithMultData[order[i]]]]]
  /\ pc' = "done"
  /\ UNCHANGED <<inspector, bundlesReport, filter, mapPerPkgHeadsOnly, curPkg, mb, idx, calls, inspected,
                 mapPackagesWithMultData>>

Next ==
  \/ NextBundle
  \/ AddInfraLabels
  \/ AddDisconnectAnnotationValue
  \/ InstallInspect
  \/ InstallRetry
  \/ RelatedInspect
  \/ RelatedRetry
  \/ CheckSupport
  \/ Validate
  \/ BuildReport

Spec == Init /\ [][Next]_vars

SpecTwice == InitTwice /\ [][Next]_vars

---------------------------------------------------------------------------
(* vocabulary of the properties *)

\* the bundle in mb has been through validate and is attached to its package
Validated == pc \in {"loop", "done"} /\ inspected # <<>>

\* the inspection outcomes of the bundle in mb
Outcomes == IF inspected = <<>> THEN <<>> ELSE inspected[Len(inspected)]

\* how many elements of seq are in S
CountIn(seq, S) == Cardinality({i \in 1..Len(seq) : seq[i] \in S})

\* the findings of one check in the Validations of mb
FindingsOf(check) == {i \in 1..Len(mb.Validations) : mb.Validations[i].check = check}

\* the platform strings recorded for an image in a map (none when it is no key)
Recorded(images, image) == IF image \in DOMAIN images THEN Range(images[image]) ELSE {}

RoleMap(role) == IF role = "related" THEN mb.RelateImages ELSE mb.InstallImages

UpperCase == "ABCDEFGHIJKLMNOPQRSTUVWXYZ"
LowerCase == "abcdefghijklmnopqrstuvwxyz"

RECURSIVE ToLower(_)
ToLower(s) ==
  IF Len(s) = 0 THEN ""
  ELSE LET c == SubSeq(s, 1, 1)
           i == Index(UpperCase, c)
       IN (IF i = 0 THEN c ELSE SubSeq(LowerCase, i, i)) \o ToLower(SubSeq(s, 2, Len(s)))

\* the text of s after its first "." (all of s when it has none)
AfterFirstDot(s) == IF Contains(s, ".") THEN SubSeq(s, Index(s, ".") + 1, Len(s)) ELSE s

\* s without the prefix, when it starts with it
StripPrefix(s, prefix) ==
  IF Len(s) >= Len(prefix) /\ SubSeq(s, 1, Len(prefix)) = prefix
  THEN SubSeq(s, Len(prefix) + 1, Len(s)) ELSE s

---------------------------------------------------------------------------
(* C1 *)

\* C1: for every image occurrence the Manifest Inspector is called once when
\* the first call succeeds and twice when it fails, both times with the image
\* of the occurrence and the configured engine, and never a third time.
C1_RetryExactlyOnce ==
  /\ Len(calls) <= 2
  /\ \A i \in 1..Len(calls) :
       calls[i].image = calls[1].image /\ calls[i].engine = bundlesReport.ContainerEngine
  /\ pc \in {"installRetry", "relatedRetry"} =>
       /\ Len(calls) = 1 /\ calls[1].err
       /\ calls[1].image = (IF pc = "installRetry" THEN mb.BundleData.InstallImages[idx]
                            ELSE mb.BundleData.RelatedImages[idx])
  /\ (pc \notin {"installRetry", "relatedRetry"} /\ calls # <<>>) =>
       /\ Len(calls) = (IF calls[1].err THEN 2 ELSE 1)
       /\ Outcomes[Len(Outcomes)].image = calls[1].image
       /\ Outcomes[Len(Outcomes)].err = calls[Len(calls)].err

\* an occurrence whose two calls both failed, and nothing more was called
C1_Witness ==
  /\ pc = "checkSupport" /\ Len(calls) = 2 /\ calls[1].err /\ calls[2].err
  /\ Len(Outcomes) = 2 /\ ~Outcomes[1].err

---------------------------------------------------------------------------
(* C2 *)

\* the install images of the bundle whose every inspection failed twice
FailedInstallImages ==
  { o.image : o \in { x \in Range(Outcomes) : x.role = "install" /\ x.err } }
    \ { o.image : o \in { x \in Range(Outcomes) : x.role = "install" /\ ~x.err } }

\* C2: when the inspector fails twice for an install image of a bundle with
\* multi-arch support, the error log has gained one entry, the image's platform
\* list is empty, and checkMissingArchtype emits one "missing manifest
\* archetype" finding for that image per token of Supported.
C2_FailedInstallImageIsCovered ==
  (Validated /\ mb.HasMultArchSupport) =>
    \A image \in FailedInstallImages :
      /\ Len(mb.BundleData.AuditErrors) >= 1
      /\ Recorded(mb.InstallImages, image) = {}
      /\ \A su \in mb.Supported :
           Cardinality({ i \in FindingsOf("missing") :
                           /\ mb.Validations[i].role = "install"
                           /\ mb.Validations[i].image = image
                           /\ mb.Validations[i].tokens = <<su>> }) = 1

---------------------------------------------------------------------------
(* C3 *)

\* the image references of the bundle, related and install
BundleImages ==
  Range(mb.BundleData.RelatedImages) \cup Range(mb.BundleData.InstallImages)

\* C3: with multi-arch support, checkSHA produces exactly one digest-pinning
\* finding for every image reference of the bundle that lacks "@sha256".
C3_OneSHAFindingPerUnpinnedImage ==
  (Validated /\ mb.HasMultArchSupport) =>
    \A image \in BundleImages :
      ~Contains(image, "@sha256") =>
        Cardinality({ i \in FindingsOf("sha") : mb.Validations[i].image = image }) = 1

---------------------------------------------------------------------------
(* C4 *)

\* the tokens of Supported that are a substring of no infrastructure label
Unlabelled ==
  { su \in mb.Supported : \A i \in 1..Len(mb.InfraLabels) : ~Contains(mb.InfraLabels[i], su) }

\* Validations holds one label-completeness finding, naming exactly the tokens of U
OneLabelFindingNaming(U) ==
  /\ Cardinality(FindingsOf("label")) = 1
  /\ \A i \in FindingsOf("label") :
       /\ Range(mb.Validations[i].tokens) = U
       /\ Len(mb.Validations[i].tokens) = Cardinality(U)

\* C4 as stated: whenever some token of Supported has no label, checkLabels
\* produces exactly one label-completeness finding naming these tokens, and
\* none when every token has a label.
C4_LabelFindingWheneverUnlabelled ==
  Validated =>
    LET U == Unlabelled
    IN IF U # {} THEN OneLabelFindingNaming(U) ELSE FindingsOf("label") = {}

\* C4 amended: the finding is produced when HasMultArchSupport is true and
\* some token of Supported has no label; otherwise there is none.
C4_LabelFindingWhenMultiArch ==
  Validated =>
    LET U == Unlabelled
    IN IF mb.HasMultArchSupport /\ U # {}
       THEN OneLabelFindingNaming(U) ELSE FindingsOf("label") = {}

\* a bundle with two tokens without a label, named by one finding
C4_Witness ==
  /\ Validated /\ mb.HasMultArchSupport
  /\ Cardinality(Unlabelled) = 2 /\ Cardinality(mb.Supported) = 3
  /\ OneLabelFindingNaming(Unlabelled)

---------------------------------------------------------------------------
(* C5 *)

\* C5: HasMultArchSupport is true exactly when Supported has more than one
\* token, and with at most one token validate appends no finding.
C5_SingleArchNoFindings ==
  [][ pc = "validate" =>
        /\ mb.HasMultArchSupport <=> Cardinality(mb.Supported) > 1
        /\ mb'.HasMultArchSupport = mb.HasMultArchSupport
        /\ Cardinality(mb.Supported) <= 1 => mb'.Validations = mb.Validations ]_vars

\* a validated bundle with one token, no label for it, no disconnect
\* annotation and an unpinned image in a map
C5_Witness ==
  /\ Validated
  /\ Cardinality(mb.Supported) = 1 /\ Unlabelled # {}
  /\ ~mb.HasDisconnectAnnotation
  /\ \E image \in DOMAIN mb.RelateImages : ~Contains(image, "@sha256")

---------------------------------------------------------------------------
(* C6 *)

\* the two sequences hold the same findings, each as many times
SameFindings(v, w) ==
  \A f \in Range(v) \cup Range(w) :
    CountIn(v, {f}) = CountIn(w, {f})

\* C6: the same bundle audited twice with a Manifest Inspector that gives the
\* same result for the same arguments yields two MultiArchBundle values equal
\* in every field, the Validations up to the order of the findings.
C6_TwoRunsAgree ==
  (pc = "done" /\ Len(inspected) = 2) =>
    LET first  == mapPackagesWithMultData[bundlesReport.Columns[1].PackageName][1]
        second == mapPackagesWithMultData[bundlesReport.Columns[1].PackageName][2]
    IN /\ first.InfraLabels = second.InfraLabels
       /\ first.HasDisconnectAnnotation = second.HasDisconnectAnnotation
       /\ first.RelateImages = second.RelateImages
       /\ first.InstallImages = second.InstallImages
       /\ first.Supported = second.Supported
       /\ first.HasMultArchSupport = second.HasMultArchSupport
       /\ first.BundleData.AuditErrors = second.BundleData.AuditErrors
       /\ SameFindings(first.Validations, second.Validations)

---------------------------------------------------------------------------
(* C7 *)

\* the (role, image, token) triples of mb where no platform string recorded
\* for the image contains the token
Uncovered ==
  { t \in {"related", "install"} \X ImageRefs \X mb.Supported :
      /\ t[2] \in DOMAIN RoleMap(t[1])
      /\ \A p \in Range(RoleMap(t[1])[t[2]]) : ~Contains(p, t[3]) }

\* the coverage findings of mb for one (role, image, token)
CoverageFindings(role, image, su) ==
  { i \in FindingsOf("missing") :
      /\ mb.Validations[i].role = role
      /\ mb.Validations[i].image = image
      /\ mb.Validations[i].tokens = <<su>> }

\* C7: with multi-arch support, checkMissingArchtype emits exactly one coverage
\* finding for every (role, image in that role's map, token of Supported) whose
\* token is in no platform string of the image, and no other coverage finding.
C7_OneCoverageFindingPerUncovered ==
  (Validated /\ mb.HasMultArchSupport) =>
    LET uncovered == Uncovered
    IN /\ \A role \in {"related", "install"} : \A image \in DOMAIN RoleMap(role) :
            \A su \in mb.Supported :
              Cardinality(CoverageFindings(role, image, su)) =
                (IF <<role, image, su>> \in uncovered THEN 1 ELSE 0)
       /\ Cardinality(FindingsOf("missing")) = Cardinality(uncovered)

\* a related image missing two of three supported tokens, with two findings,
\* and an image that is a key of both maps
C7_Witness ==
  /\ Validated /\ mb.HasMultArchSupport /\ Cardinality(mb.Supported) = 3
  /\ \E image \in DOMAIN mb.RelateImages :
       /\ Cardinality({su \in mb.Supported : <<"related", image, su>> \in Uncovered}) = 2
       /\ Cardinality({ i \in FindingsOf("missing") :
                          mb.Validations[i].role = "related"
                          /\ mb.Validations[i].image = image }) = 2
  /\ DOMAIN mb.InstallImages # {}

---------------------------------------------------------------------------
(* C8 *)

\* the infrastructure annotation holds "disconnected", in any letter case
MentionsDisconnected ==
  Contains(ToLower(Lookup(mb.BundleData.Annotations, InfrastructureAnnotation)), "disconnected")

\* C8: HasDisconnectAnnotation is true exactly when the annotation's value
\* contains "disconnected" compared case-insensitively, and checkAnnotation
\* emits its one finding exactly when HasMultArchSupport is true and it does not.
C8_DisconnectAnyCase ==
  /\ pc \notin {"addInfraLabels", "addDisconnectAnnotationValue"} =>
       (mb.HasDisconnectAnnotation <=> MentionsDisconnected)
  /\ Validated =>
       Cardinality(FindingsOf("annotation")) =
         (IF mb.HasMultArchSupport /\ ~MentionsDisconnected THEN 1 ELSE 0)

---------------------------------------------------------------------------
(* C9 *)

\* the platform strings recorded under either image map
AllPlatformStrings ==
  UNION { Range(mb.RelateImages[k]) : k \in DOMAIN mb.RelateImages }
    \cup UNION { Range(mb.InstallImages[k]) : k \in DOMAIN mb.InstallImages }

\* C9: after checkSupport, Supported is the set of the infrastructure labels
\* with the prefix "operatorframework.io/arch." stripped and of the platform
\* strings cut after their first "." ("a.b.c" gives "b.c").
C9_SupportedIsLabelsAndAfterFirstDot ==
  (pc = "validate" \/ Validated) =>
    mb.Supported = { StripPrefix(mb.InfraLabels[i], ArchPrefix) : i \in 1..Len(mb.InfraLabels) }
                     \cup { AfterFirstDot(p) : p \in AllPlatformStrings }

---------------------------------------------------------------------------
(* C10 *)

\* the image references of the bundle in the order they are inspected
Occurrences == mb.BundleData.InstallImages \o mb.BundleData.RelatedImages

\* C10: an inspection that fails twice never aborts the bundle: every image
\* occurrence is inspected, the bundle is validated and attached to its package
\* in the report; each such failure adds one entry to the error log, one
\* finding when the image is a related image and none when it is an install
\* image.
C10_FailuresAreLocal ==
  /\ Len(mb.BundleData.AuditErrors) = CountIn(Outcomes, {o \in Range(Outcomes) : o.err})
  /\ \A i \in FindingsOf("inspect") : mb.Validations[i].role = "related"
  /\ \A image \in ImageRefs :
       Cardinality({ i \in FindingsOf("inspect") : mb.Validations[i].image = image })
         = CountIn(Outcomes, {o \in Range(Outcomes) :
                                 o.err /\ o.role = "related" /\ o.image = image})
  /\ (pc \in {"checkSupport", "validate"} \/ Validated) =>
       /\ Len(Outcomes) = Len(Occurrences)
       /\ \A i \in 1..Len(Outcomes) : Outcomes[i].image = Occurrences[i]
  /\ Validated =>
       /\ mb.BundleData.PackageName \in DOMAIN mapPackagesWithMultData
       /\ mb \in Range(mapPackagesWithMultData[mb.BundleData.PackageName])
  /\ (pc = "done" /\ inspected # <<>>) =>
       \E i \in 1..Len(multiArch.Packages) :
         /\ multiArch.Packages[i].Name = mb.BundleData.PackageName
         /\ mb \in Range(multiArch.Packages[i].Bundles)

\* a report whose bundle had its install image fail twice, then its related
\* image fail twice, with no multi-arch support
C10_Witness ==
  /\ pc = "done" /\ Len(Outcomes) = 2
  /\ Outcomes[1].role = "install" /\ Outcomes[1].err
  /\ Outcomes[2].role = "related" /\ Outcomes[2].err
  /\ ~mb.HasMultArchSupport
  /\ Cardinality(FindingsOf("inspect")) = 1 /\ Len(mb.Validations) = 1
  /\ Len(mb.BundleData.AuditErrors) = 2

=============================================================================
